---- MODULE Spec2Model ----
(***************************************************************************)
(* Offline-first harvest ledger: record store, in-memory entry list,       *)
(* retrospective count propagation and the sync reconciler (manual push,   *)
(* automatic push, recall) of the harvest application.                     *)
(*                                                                         *)
(* Execution model: one JavaScript thread.  A handler runs atomically up   *)
(* to its next await.  A record-store call takes effect when it is issued  *)
(* (store transactions run in the order they are created) and its          *)
(* continuation runs later, in issue order (dbq).  Network requests        *)
(* resolve or throw at any later time, in any order.  The auto-sync        *)
(* effect of App runs with the render that follows a change of entries,    *)
(* isOnline or the endpoint, so it is part of the step that changes them.  *)
(*                                                                         *)
(* Weights are in tenths of a kilogram (18 is 1.8 kg).  A string the code  *)
(* searches (an endpoint URL, an identifier) is a tuple of its parts.      *)
(***************************************************************************)
EXTENDS Integers, Sequences, FiniteSets, TLC

\* ---------------------------------------------------------------- bounds
MaxIds == 2
MaxInFlight == 2
MaxRows == 2
MaxEntries == 2

\* ------------------------------------------------------- program constants
DefaultCrateWeight == 18
DefaultCrateCount == 1

\* ------------------------------------------------------------ input domains
Tanks == {"Tank 1", "Tank 2"}
Counts == {30, 40}
Sessions == {"1", "2"}
Farms == {"A"}
SaveWeights == {50}
SaveCrateCounts == {2}
EditWeights == {50, 70}
EditCrateCounts == {2}
\* What parseFloat gives for the text of a weight field: no number, 0, a weight.
NaN == -1
TypedWeights == {NaN, 0, 50}

IdPrefix == "id_"
MkId(k) == <<IdPrefix, k>>
LocalIds == {MkId(k) : k \in 1..MaxIds}

PlainUrl == <<"https://docs.test", "/spreadsheets/d/1">>
ExecUrl == <<"https://hook.test", "/exec">>
ScriptUrl == <<"https://script.test", "/macros/s/", "KEY", "/exec">>
Urls == {<<>>, PlainUrl, ExecUrl}

VARIABLES db, entries, settings, isOnline, syncingRef, autoFetch, push,
          syncing, recall, recalling, result, edit, dbq, usedIds, acked, track,
          lastPull, report

vars == <<db, entries, settings, isOnline, syncingRef, autoFetch, push,
          syncing, recall, recalling, result, edit, dbq, usedIds, acked, track,
          lastPull, report>>

\* ------------------------------------------------------------ small helpers
EmptyEntries == [i \in {} |-> 0]
NoEdit == [id |-> <<>>, values |-> EmptyEntries]
NoRecall == [pc |-> "idle", data |-> <<>>]
NoPull == [data |-> <<>>, times |-> 0]
\* What the summary screens and the export have computed from their entries.
NoReport ==
  [list |-> <<>>, prices |-> <<>>, shown |-> {}, log |-> <<>>, abstract |-> <<>>,
   revenue |-> <<>>, pdf |-> <<>>]
Includes(str, part) == \E i \in 1..Len(str) : str[i] = part
StartsWith(str, part) == Len(str) > 0 /\ str[1] = part
Truthy(str) == Len(str) > 0
RemoveAt(s, i) == SubSeq(s, 1, i - 1) \o SubSeq(s, i + 1, Len(s))
Restrict(es, S) == [i \in S |-> es[i]]
Version(e) == [e EXCEPT !.synced = TRUE]
Versions(es) == {Version(es[i]) : i \in DOMAIN es}

RECURSIVE SetToSeq(_)
SetToSeq(S) ==
  IF S = {} THEN <<>>
  ELSE LET x == CHOOSE y \in S : TRUE IN <<x>> \o SetToSeq(S \ {x})

AsList(es) == [k \in 1..Cardinality(DOMAIN es) |-> es[SetToSeq(DOMAIN es)[k]]]

\* ------------------------------------------------- record store (DBService)
Put(store, e) == [i \in DOMAIN store \cup {e.id} |-> IF i = e.id THEN e ELSE store[i]]

RECURSIVE UpsertEntries(_, _)
UpsertEntries(store, list) ==
  IF list = <<>> THEN store
  ELSE UpsertEntries(Put(store, Head(list)), Tail(list))

SaveEntry(store, e) == Put(store, e)

MarkSynced(store, ids) ==
  [i \in DOMAIN store |-> IF i \in ids THEN [store[i] EXCEPT !.synced = TRUE] ELSE store[i]]

DeleteEntries(store, ids) == Restrict(store, DOMAIN store \ ids)

GetAllEntries(store) == store

GenerateId(used) == LocalIds \ used

DefaultSettings ==
  [activeTank |-> "Tank 1", shrimpCount |-> 30, crateWeight |-> DefaultCrateWeight,
   teamName |-> "Team A", farmName |-> "A", sessionName |-> "1",
   tankCounts |-> [t \in {} |-> 0], googleSheetUrl |-> <<>>]

\* ------------------------------------------------------------ remote rows
BadIds == {<<"x_", 1>>, <<"undefined">>, <<>>}
RowIds == LocalIds \cup BadIds
\* The crate cells of a row: both blank (0), or both filled.
CrateCells == {[crateCount |-> 0, crateWeight |-> 0], [crateCount |-> 2, crateWeight |-> 20]}
RowSet ==
  {[id |-> i, tank |-> "Tank 1", count |-> 40, weight |-> 90,
    crateCount |-> c.crateCount, crateWeight |-> c.crateWeight, team |-> "Team B",
    timestamp |-> 2, farmName |-> "A", sessionName |-> "2"] :
     i \in RowIds, c \in CrateCells}
Header ==
  [id |-> <<"ID">>, tank |-> "Tank", count |-> 0, weight |-> 0, crateCount |-> 0,
   crateWeight |-> 0, team |-> "Team", timestamp |-> 0, farmName |-> "Farm",
   sessionName |-> "Session"]
Snapshots ==
  {<<>>} \cup {<<Header>> \o rows : rows \in UNION {[1..n -> RowSet] : n \in 0..MaxRows}}

\* Responses that are arrays but not tables of cells: an element after the
\* header is null or a number; and rows whose weight cell is 0 or no number.
NullRow == [null |-> TRUE]
ScalarRow == [scalar |-> TRUE]
GoodRow ==
  [id |-> MkId(1), tank |-> "Tank 1", count |-> 40, weight |-> 90, crateCount |-> 2,
   crateWeight |-> 20, team |-> "Team B", timestamp |-> 2, farmName |-> "A",
   sessionName |-> "2"]
BadWeightRows == {[GoodRow EXCEPT !.weight = w] : w \in {0, NaN}}
OddRows == {NullRow, ScalarRow} \cup BadWeightRows
OddResponses ==
  {<<Header, r>> : r \in OddRows} \cup {<<Header, GoodRow, r>> : r \in OddRows}

\* ----------------------------------------------------------- pure helpers
IsWebhookUrl(url) == Includes(url, "/macros/s/") \/ Includes(url, "/exec")

\* Variant: the synced filter dropped.
UnsyncedUnfiltered(es) == DOMAIN es

Unsynced(es) == {i \in DOMAIN es : ~es[i].synced}

ActiveEntries(es, sett) ==
  {i \in DOMAIN es : es[i].farmName = sett.farmName /\ es[i].sessionName = sett.sessionName}

OrDefault(x, d) == IF x = 0 THEN d ELSE x

Slice1(data) == IF data = <<>> THEN <<>> ELSE Tail(data)

\* row[i] of an element that is no array (a number, an object) is undefined:
\* String(undefined) is the text 'undefined', Number(undefined) is NaN, and
\* undefined is falsy.
StringCell(row, f) == IF f \in DOMAIN row THEN row[f] ELSE "undefined"
IdCell(row) == IF "id" \in DOMAIN row THEN row.id ELSE <<"undefined">>
NumberCell(row, f) == IF f \in DOMAIN row THEN row[f] ELSE NaN
FalsyCell(row, f) == IF f \in DOMAIN row THEN row[f] ELSE 0

RowToEntry(row) ==
  [id |-> IdCell(row), tank |-> StringCell(row, "tank"),
   count |-> NumberCell(row, "count"), weight |-> NumberCell(row, "weight"),
   crateWeight |-> OrDefault(FalsyCell(row, "crateWeight"), DefaultCrateWeight),
   crateCount |-> OrDefault(FalsyCell(row, "crateCount"), DefaultCrateCount),
   team |-> StringCell(row, "team"), timestamp |-> StringCell(row, "timestamp"),
   synced |-> TRUE,
   farmName |-> StringCell(row, "farmName"),
   sessionName |-> StringCell(row, "sessionName")]

\* row[0] of null throws.
MapThrows(data) == \E k \in 1..Len(Slice1(data)) : "null" \in DOMAIN Slice1(data)[k]

\* Variant: the prefix test dropped.
AcceptIdPresentOnly(id) == Truthy(id)

AcceptId(id) == Truthy(id) /\ StartsWith(id, IdPrefix)

RecalledEntries(data) ==
  LET mapped == [k \in 1..Len(Slice1(data)) |-> RowToEntry(Slice1(data)[k])]
      Keep(e) == AcceptId(e.id)
  IN SelectSeq(mapped, Keep)

\* Variant: the weight of a row is added to the weight of the stored entry.
UpsertRecalledAddingWeight(store, data) ==
  LET Merge(e) == IF e.id \in DOMAIN store
                  THEN [e EXCEPT !.weight = store[e.id].weight + e.weight]
                  ELSE e
      list == RecalledEntries(data)
  IN UpsertEntries(store, [k \in 1..Len(list) |-> Merge(list[k])])

\* Variant: a local entry that is not synced is kept.
UpsertRecalledKeepingUnsynced(store, data) ==
  LET Keep(e) == ~(e.id \in DOMAIN store /\ ~store[e.id].synced)
  IN UpsertEntries(store, SelectSeq(RecalledEntries(data), Keep))

\* Variant: the store is replaced by the snapshot.
UpsertRecalledReplacing(store, data) == UpsertEntries(EmptyEntries, RecalledEntries(data))

UpsertRecalled(store, data) == UpsertEntries(store, RecalledEntries(data))

\* Variant: only one identifier of the batch is collected.
IdsToSyncFirstOnly(batch) ==
  IF DOMAIN batch = {} THEN {} ELSE {CHOOSE i \in DOMAIN batch : TRUE}

IdsToSync(batch) == DOMAIN batch

\* Variant: the session test dropped.
AffectedEntriesAnySession(es, sett, newSettings) ==
  [i \in DOMAIN es |->
     IF /\ es[i].tank = newSettings.activeTank
        /\ es[i].count # newSettings.shrimpCount
     THEN [es[i] EXCEPT !.count = newSettings.shrimpCount, !.synced = FALSE]
     ELSE es[i]]

AffectedEntries(es, sett, newSettings) ==
  [i \in DOMAIN es |->
     IF /\ es[i].farmName = sett.farmName /\ es[i].sessionName = sett.sessionName
        /\ es[i].tank = newSettings.activeTank
        /\ es[i].count # newSettings.shrimpCount
     THEN [es[i] EXCEPT !.count = newSettings.shrimpCount, !.synced = FALSE]
     ELSE es[i]]

ChangedEntries(es, affected) == {i \in DOMAIN es : affected[i] # es[i]}

NewEntry(id, sett, weight, crateCount) ==
  [id |-> id, tank |-> sett.activeTank, count |-> sett.shrimpCount, weight |-> weight,
   crateWeight |-> sett.crateWeight, crateCount |-> crateCount, team |-> sett.teamName,
   timestamp |-> 1, synced |-> FALSE, farmName |-> sett.farmName,
   sessionName |-> sett.sessionName]

Item(kind, data) == [kind |-> kind, data |-> data]

\* The result banner of the sync screen: its type, its message and the number
\* the message carries (0 when it carries none).
SetResult(type, message, n) == [type |-> type, message |-> message, n |-> n]
NoResult == SetResult("none", "", 0)

\* History: the versions sent in a push request that did not throw or received by
\* a recall.  It is recorded only in the specification that states track.
Acknowledge(versions) == IF track THEN acked \cup versions ELSE acked

\* History: the snapshot of the last recall since which nothing else has
\* written the store, and whether that recall was the first of it (1) or a
\* repetition (2).  It is recorded only in the specifications that state track.
Pulled(data) ==
  IF track
  THEN [data |-> data,
        times |-> IF lastPull.times > 0 /\ lastPull.data = data THEN 2 ELSE 1]
  ELSE NoPull

\* Requests and record-store continuations outstanding.
InFlight ==
  Len(autoFetch) + Len(dbq) + (IF push.pc = "fetch" THEN 1 ELSE 0)
    + (IF recall.pc = "fetch" THEN 1 ELSE 0)

\* ------------------------------------------------------------------- Init
Init ==
  /\ db = EmptyEntries
  /\ entries = EmptyEntries
  /\ settings \in {[DefaultSettings EXCEPT !.googleSheetUrl = url] : url \in Urls}
  /\ isOnline \in BOOLEAN
  /\ syncingRef = FALSE
  /\ autoFetch = <<>>
  /\ push = [pc |-> "idle", batch |-> EmptyEntries]
  /\ syncing = FALSE
  /\ recall = NoRecall
  /\ recalling = FALSE
  /\ result = NoResult
  /\ edit = NoEdit
  /\ dbq = <<>>
  /\ usedIds = {}
  /\ acked = {}
  /\ track = FALSE
  /\ lastPull = NoPull
  /\ report = NoReport

\* ------------------------------------------- App: auto-sync (App.tsx 63-87)
\* Variant: the reentrancy flag is not consulted.
PerformAutoSyncUnguarded(es, online, url, ref) ==
  IF ~online \/ ~Truthy(url) \/ Unsynced(es) = {}
  THEN syncingRef' = ref /\ autoFetch' = autoFetch
  ELSE syncingRef' = TRUE /\ autoFetch' = Append(autoFetch, Restrict(es, Unsynced(es)))

\* Variant: the connectivity is not consulted.
PerformAutoSyncOffline(es, online, url, ref) ==
  IF ref \/ ~Truthy(url) \/ Unsynced(es) = {}
  THEN syncingRef' = ref /\ autoFetch' = autoFetch
  ELSE syncingRef' = TRUE /\ autoFetch' = Append(autoFetch, Restrict(es, Unsynced(es)))

\* Variant: the effect runs only when the connectivity or the length of the
\* list has changed.
PerformAutoSyncOnLength(es, online, url, ref) ==
  IF \/ (online = isOnline /\ Cardinality(DOMAIN es) = Cardinality(DOMAIN entries))
     \/ ~online \/ ref \/ ~Truthy(url) \/ Unsynced(es) = {}
  THEN syncingRef' = ref /\ autoFetch' = autoFetch
  ELSE syncingRef' = TRUE /\ autoFetch' = Append(autoFetch, Restrict(es, Unsynced(es)))

PerformAutoSync(es, online, url, ref) ==
  IF ~online \/ ref \/ ~Truthy(url) \/ Unsynced(es) = {}
  THEN syncingRef' = ref /\ autoFetch' = autoFetch
  ELSE syncingRef' = TRUE /\ autoFetch' = Append(autoFetch, Restrict(es, Unsynced(es)))

AutoFetchResolve ==
  \E k \in 1..Len(autoFetch) :
    /\ autoFetch' = RemoveAt(autoFetch, k)
    /\ db' = MarkSynced(db, IdsToSync(autoFetch[k]))
    /\ dbq' = Append(dbq, Item("autoMark", EmptyEntries))
    /\ acked' = Acknowledge(Versions(autoFetch[k]))
    /\ lastPull' = NoPull
    /\ UNCHANGED <<entries, settings, isOnline, syncingRef, push, syncing, recall,
                   recalling, result, edit, usedIds, track, report>>

\* As AutoFetchThrow without the finally block.
AutoFetchThrowKeepingGuard ==
  \E k \in 1..Len(autoFetch) :
    /\ autoFetch' = RemoveAt(autoFetch, k)
    /\ UNCHANGED <<db, entries, settings, isOnline, syncingRef, push, syncing, recall,
                   recalling, result, edit, dbq, usedIds, acked, track, lastPull, report>>

AutoFetchThrow ==
  \E k \in 1..Len(autoFetch) :
    /\ autoFetch' = RemoveAt(autoFetch, k)
    /\ syncingRef' = FALSE
    /\ UNCHANGED <<db, entries, settings, isOnline, push, syncing, recall, recalling,
                   result, edit, dbq, usedIds, acked, track, lastPull, report>>

SetOnline ==
  /\ isOnline' = ~isOnline
  /\ PerformAutoSync(entries, isOnline', settings.googleSheetUrl, syncingRef)
  /\ UNCHANGED <<db, entries, settings, push, syncing, recall, recalling, result, edit,
                 dbq, usedIds, acked, track, lastPull, report>>

\* ------------------- App: retrospective propagation (App.tsx 125-145)
\* The record store as the call leaves it.
RetroStore(newSettings) ==
  LET affected == AffectedEntries(entries, settings, newSettings)
      changed == ChangedEntries(entries, affected)
  IN IF changed # {}
     THEN UpsertEntries(db, AsList(Restrict(affected, changed)))
     ELSE db

HandleRetrospectiveUpdate(newSettings) ==
  LET affected == AffectedEntries(entries, settings, newSettings)
      changed == ChangedEntries(entries, affected)
  IN IF changed # {}
     THEN /\ db' = RetroStore(newSettings)
          /\ dbq' = Append(dbq, Item("retro", affected))
          /\ lastPull' = NoPull
     ELSE UNCHANGED <<db, dbq, lastPull, report>>

HandleQuickUpdateSettingsNoRetro(updates) ==
  /\ settings' = [f \in DOMAIN settings |->
                    IF f \in DOMAIN updates THEN updates[f] ELSE settings[f]]
  /\ UNCHANGED <<db, dbq, lastPull>>

HandleQuickUpdateSettings(updates) ==
  LET next == [f \in DOMAIN settings |->
                 IF f \in DOMAIN updates THEN updates[f] ELSE settings[f]]
  IN /\ IF "shrimpCount" \in DOMAIN updates /\ updates.shrimpCount # settings.shrimpCount
        THEN HandleRetrospectiveUpdate(next)
        ELSE UNCHANGED <<db, dbq, lastPull, report>>
     /\ settings' = next

HandleFinishCountEditOf(newCount) ==
  /\ newCount > 0
  /\ HandleQuickUpdateSettings(
       [shrimpCount |-> newCount,
        tankCounts |-> [t \in DOMAIN settings.tankCounts \cup {settings.activeTank} |->
                          IF t = settings.activeTank THEN newCount
                          ELSE settings.tankCounts[t]]])
  /\ edit' = NoEdit
  /\ UNCHANGED <<entries, isOnline, syncingRef, autoFetch, push, syncing, recall,
                 recalling, result, usedIds, acked, track, report>>

HandleFinishCountEdit == \E newCount \in Counts : HandleFinishCountEditOf(newCount)

\* settings.tankCounts?.[tankName] || settings.shrimpCount
SavedCount(sett, tankName) ==
  IF tankName \in DOMAIN sett.tankCounts /\ sett.tankCounts[tankName] # 0
  THEN sett.tankCounts[tankName] ELSE sett.shrimpCount

HandleTankSelection ==
  \E tankName \in Tanks :
    LET savedCount == SavedCount(settings, tankName)
    IN /\ HandleQuickUpdateSettings([activeTank |-> tankName, shrimpCount |-> savedCount])
       /\ edit' = NoEdit
       /\ UNCHANGED <<entries, isOnline, syncingRef, autoFetch, push, syncing, recall,
                      recalling, result, usedIds, acked, track, report>>

\* handleSubmit passes tankCounts: initialSettings.tankCounts as it was.
ControlPanelSaveOf(tank, cnt, farm, sess) ==
  LET s == [settings EXCEPT !.activeTank = tank, !.shrimpCount = cnt,
                            !.farmName = farm, !.sessionName = sess]
  IN /\ HandleRetrospectiveUpdate(s)
     /\ settings' = s
     /\ edit' = NoEdit
     /\ UNCHANGED <<entries, isOnline, syncingRef, autoFetch, push, syncing, recall,
                    recalling, result, usedIds, acked, track, report>>

ControlPanelSave ==
  \E tank \in Tanks, cnt \in Counts, farm \in Farms, sess \in Sessions :
    ControlPanelSaveOf(tank, cnt, farm, sess)

\* ----------------------------------------- entry capture (App.tsx 161-171)
HandleSaveOf(weights) ==
  \E weight \in weights, crateCount \in SaveCrateCounts, id \in GenerateId(usedIds) :
    LET newEntry == NewEntry(id, settings, weight, crateCount)
    IN /\ weight # NaN /\ weight > 0
       /\ db' = SaveEntry(db, newEntry)
       /\ dbq' = Append(dbq, Item("add", Put(EmptyEntries, newEntry)))
       /\ usedIds' = usedIds \cup {id}
       /\ lastPull' = NoPull
       /\ edit' = NoEdit
       /\ UNCHANGED <<entries, settings, isOnline, syncingRef, autoFetch, push, syncing,
                      recall, recalling, result, acked, track, report>>

HandleSave == HandleSaveOf(SaveWeights)

HandleSaveTyped == HandleSaveOf(TypedWeights)

\* ------------------------------------- timeline screen (LogScreen.tsx 99-134)
StartEdit ==
  \E id \in ActiveEntries(entries, settings) :
    /\ edit' = [id |-> id, values |-> Put(EmptyEntries, entries[id])]
    /\ UNCHANGED <<db, entries, settings, isOnline, syncingRef, autoFetch, push, syncing,
                   recall, recalling, result, dbq, usedIds, acked, track, lastPull, report>>

SaveEditOf(weights) ==
  \E weight \in weights, crateCount \in EditCrateCounts :
    /\ Truthy(edit.id)
    /\ LET e == [edit.values[edit.id] EXCEPT !.weight = weight, !.crateCount = crateCount]
       IN db' = SaveEntry(db, e)
    /\ dbq' = Append(dbq, Item("updated", EmptyEntries))
    /\ lastPull' = NoPull
    /\ UNCHANGED <<entries, settings, isOnline, syncingRef, autoFetch, push, syncing,
                   recall, recalling, result, edit, usedIds, acked, track, report>>

SaveEdit == SaveEditOf(EditWeights)

SaveEditTyped == SaveEditOf(TypedWeights)

\* ------------------------------- manual push (SyncManager.tsx 53-91)
HandlePushToSheets ==
  /\ ~syncing
  /\ edit' = NoEdit
  /\ IF ~Truthy(settings.googleSheetUrl)
     THEN /\ result' = SetResult("error", "Configure URL first.", 0)
          /\ UNCHANGED <<push, syncing>>
     ELSE IF ~IsWebhookUrl(settings.googleSheetUrl)
     THEN /\ result' = SetResult("error", "Bridge URL required for direct sync.", 0)
          /\ UNCHANGED <<push, syncing>>
     ELSE IF Unsynced(entries) = {}
     THEN /\ result' = SetResult("success", "Cloud is already up to date!", 0)
          /\ UNCHANGED <<push, syncing>>
     ELSE /\ syncing' = TRUE
          /\ result' = NoResult
          /\ push' = [pc |-> "fetch", batch |-> Restrict(entries, Unsynced(entries))]
  /\ UNCHANGED <<db, entries, settings, isOnline, syncingRef, autoFetch, recall,
                 recalling, dbq, usedIds, acked, track, lastPull, report>>

PushFetchResolve ==
  /\ push.pc = "fetch"
  /\ db' = MarkSynced(db, IdsToSync(push.batch))
  /\ dbq' = Append(dbq, Item("pushMark", EmptyEntries))
  /\ push' = [push EXCEPT !.pc = "mark"]
  /\ acked' = Acknowledge(Versions(push.batch))
  /\ lastPull' = NoPull
  /\ UNCHANGED <<entries, settings, isOnline, syncingRef, autoFetch, syncing, recall,
                 recalling, result, edit, usedIds, track, report>>

\* As PushFetchThrow without the finally block.
PushFetchThrowStillBusy ==
  /\ push.pc = "fetch"
  /\ result' = SetResult("error", "Connection Error.", 0)
  /\ push' = [pc |-> "idle", batch |-> EmptyEntries]
  /\ UNCHANGED <<db, entries, settings, isOnline, syncingRef, autoFetch, syncing, recall,
                 recalling, edit, dbq, usedIds, acked, track, lastPull, report>>

PushFetchThrow ==
  /\ push.pc = "fetch"
  /\ result' = SetResult("error", "Connection Error.", 0)
  /\ syncing' = FALSE
  /\ push' = [pc |-> "idle", batch |-> EmptyEntries]
  /\ UNCHANGED <<db, entries, settings, isOnline, syncingRef, autoFetch, recall,
                 recalling, edit, dbq, usedIds, acked, track, lastPull, report>>

\* ---------------------------------- recall (SyncManager.tsx 93-131)
HandleRecallFromSheets ==
  /\ ~recalling
  /\ edit' = NoEdit
  /\ IF ~IsWebhookUrl(settings.googleSheetUrl)
     THEN /\ result' = SetResult("error", "Webhook URL required for Recall.", 0)
          /\ UNCHANGED <<recall, recalling>>
     ELSE /\ recalling' = TRUE
          /\ result' = NoResult
          /\ recall' = [pc |-> "fetch", data |-> <<>>]
  /\ UNCHANGED <<db, entries, settings, isOnline, syncingRef, autoFetch, push, syncing,
                 dbq, usedIds, acked, track, lastPull, report>>

RecallFetchThrow ==
  /\ recall.pc = "fetch"
  /\ result' = SetResult("error", "Recall failed. Check Webhook.", 0)
  /\ recalling' = FALSE
  /\ recall' = NoRecall
  /\ UNCHANGED <<db, entries, settings, isOnline, syncingRef, autoFetch, push, syncing,
                 edit, dbq, usedIds, acked, track, lastPull, report>>

\* The response is an array: the conversion throws on a null element, else the
\* rows that pass the filter are written.
RecallFetchResolveData(data) ==
  IF MapThrows(data)
  THEN RecallFetchThrow
  ELSE /\ recall.pc = "fetch"
       /\ db' = UpsertRecalled(db, data)
       /\ dbq' = Append(dbq, Item("recalled", EmptyEntries))
       /\ recall' = [pc |-> "upsert", data |-> data]
       /\ usedIds' = usedIds \cup DOMAIN db'
       /\ acked' = Acknowledge({Version(RecalledEntries(data)[k]) :
                                    k \in 1..Len(RecalledEntries(data))})
       /\ lastPull' = Pulled(data)
       /\ UNCHANGED <<entries, settings, isOnline, syncingRef, autoFetch, push,
                      syncing, recalling, result, edit, track, report>>

RecallFetchResolve == \E data \in Snapshots : RecallFetchResolveData(data)

RecallFetchResolveOdd == \E data \in OddResponses : RecallFetchResolveData(data)

\* The response parses but is no array: 'Invalid Format' is thrown.
RecallFetchResolveNotArray == RecallFetchThrow

\* ------------------------- continuations of record-store calls, in issue order
LoadData(q) == Append(q, Item("load", GetAllEntries(db)))

DbResolve ==
  /\ dbq # <<>>
  /\ LET head == Head(dbq)
         rest == Tail(dbq)
     IN CASE head.kind = "add" ->
               /\ entries' = UpsertEntries(entries, AsList(head.data))
               /\ PerformAutoSync(entries', isOnline, settings.googleSheetUrl, syncingRef)
               /\ dbq' = rest
               /\ UNCHANGED <<push, syncing, recall, recalling, result, edit>>
          [] head.kind = "retro" ->
               /\ entries' = head.data
               /\ PerformAutoSync(entries', isOnline, settings.googleSheetUrl, syncingRef)
               /\ dbq' = rest
               /\ UNCHANGED <<push, syncing, recall, recalling, result, edit>>
          [] head.kind = "load" ->
               /\ entries' = head.data
               /\ PerformAutoSync(entries', isOnline, settings.googleSheetUrl, syncingRef)
               /\ dbq' = rest
               /\ UNCHANGED <<push, syncing, recall, recalling, result, edit>>
          [] head.kind = "autoMark" ->
               /\ dbq' = Append(rest, Item("autoLoad", GetAllEntries(db)))
               /\ UNCHANGED <<entries, syncingRef, autoFetch, push, syncing, recall,
                              recalling, result, edit>>
          [] head.kind = "autoLoad" ->
               /\ entries' = head.data
               /\ PerformAutoSync(entries', isOnline, settings.googleSheetUrl, FALSE)
               /\ dbq' = rest
               /\ UNCHANGED <<push, syncing, recall, recalling, result, edit>>
          [] head.kind = "pushMark" ->
               /\ result' = SetResult("success", "Manual Sync Success",
                                      Cardinality(DOMAIN push.batch))
               /\ dbq' = LoadData(rest)
               /\ syncing' = FALSE
               /\ push' = [pc |-> "idle", batch |-> EmptyEntries]
               /\ UNCHANGED <<entries, syncingRef, autoFetch, recall, recalling, edit>>
          [] head.kind = "recalled" ->
               /\ result' = SetResult("success", "Restored",
                                      Len(RecalledEntries(recall.data)))
               /\ dbq' = LoadData(rest)
               /\ recalling' = FALSE
               /\ recall' = NoRecall
               /\ UNCHANGED <<entries, syncingRef, autoFetch, push, syncing, edit>>
          [] head.kind = "updated" ->
               /\ dbq' = LoadData(rest)
               /\ edit' = NoEdit
               /\ UNCHANGED <<entries, syncingRef, autoFetch, push, syncing, recall,
                              recalling, result>>
          [] head.kind = "pushMarkFailed" ->
               /\ result' = SetResult("error", "Connection Error.", 0)
               /\ dbq' = rest
               /\ syncing' = FALSE
               /\ push' = [pc |-> "idle", batch |-> EmptyEntries]
               /\ UNCHANGED <<entries, syncingRef, autoFetch, recall, recalling, edit>>
          [] head.kind = "recallFailed" ->
               /\ result' = SetResult("error", "Recall failed. Check Webhook.", 0)
               /\ dbq' = rest
               /\ recalling' = FALSE
               /\ recall' = NoRecall
               /\ UNCHANGED <<entries, syncingRef, autoFetch, push, syncing, edit>>
          [] head.kind = "autoMarkFailed" ->
               /\ syncingRef' = FALSE
               /\ dbq' = rest
               /\ UNCHANGED <<entries, autoFetch, push, syncing, recall, recalling,
                              result, edit>>
          [] head.kind = "deleted" ->
               /\ dbq' = LoadData(rest)
               /\ UNCHANGED <<entries, syncingRef, autoFetch, push, syncing, recall,
                              recalling, result, edit>>
  /\ UNCHANGED <<db, settings, isOnline, usedIds, acked, track, lastPull, report>>

Bounded == InFlight <= MaxInFlight

\* The push engine: entry capture, direct edit, manual push, auto-sync and
\* connectivity changes.
Next ==
  \/ HandleSave /\ Bounded'
  \/ SetOnline /\ Bounded'
  \/ StartEdit /\ Bounded'
  \/ SaveEdit /\ Bounded'
  \/ HandlePushToSheets /\ Bounded'
  \/ PushFetchResolve /\ Bounded'
  \/ PushFetchThrow /\ Bounded'
  \/ AutoFetchResolve /\ Bounded'
  \/ AutoFetchThrow /\ Bounded'
  \/ DbResolve /\ Bounded'

Spec == Init /\ [][Next]_vars

\* Recall next to entry capture and direct edit, offline.
InitPull ==
  /\ Init
  /\ ~isOnline
  /\ settings.googleSheetUrl \in {PlainUrl, ExecUrl}

NextPull ==
  \/ HandleSave /\ Bounded'
  \/ StartEdit /\ Bounded'
  \/ SaveEdit /\ Bounded'
  \/ HandleRecallFromSheets /\ Bounded'
  \/ RecallFetchResolve /\ Bounded'
  \/ RecallFetchThrow /\ Bounded'
  \/ DbResolve /\ Bounded'

SpecPull == InitPull /\ [][NextPull]_vars

\* Recall repeated, next to entry capture, offline, with the last snapshot
\* recorded.
InitPullTwice ==
  /\ db = EmptyEntries
  /\ entries = EmptyEntries
  /\ settings = [DefaultSettings EXCEPT !.googleSheetUrl = ExecUrl]
  /\ isOnline = FALSE
  /\ syncingRef = FALSE
  /\ autoFetch = <<>>
  /\ push = [pc |-> "idle", batch |-> EmptyEntries]
  /\ syncing = FALSE
  /\ recall = NoRecall
  /\ recalling = FALSE
  /\ result = NoResult
  /\ edit = NoEdit
  /\ dbq = <<>>
  /\ usedIds = {}
  /\ acked = {}
  /\ track = TRUE
  /\ lastPull = NoPull
  /\ report = NoReport

NextPullTwice ==
  \/ HandleSave /\ Bounded'
  \/ HandleRecallFromSheets /\ Bounded'
  \/ RecallFetchResolve /\ Bounded'
  \/ RecallFetchThrow /\ Bounded'
  \/ DbResolve /\ Bounded'

SpecPullTwice == InitPullTwice /\ [][NextPullTwice]_vars

\* Entry capture and direct edit with any text in the weight field, and recall
\* of responses that are not tables or carry odd weight cells, offline.
InitIntake ==
  /\ Init
  /\ ~isOnline
  /\ settings.googleSheetUrl = ExecUrl

NextIntake ==
  \/ HandleSaveTyped /\ Bounded'
  \/ StartEdit /\ Bounded'
  \/ SaveEditTyped /\ Bounded'
  \/ HandleRecallFromSheets /\ Bounded'
  \/ RecallFetchResolveOdd /\ Bounded'
  \/ RecallFetchResolveNotArray /\ Bounded'
  \/ RecallFetchThrow /\ Bounded'
  \/ DbResolve /\ Bounded'

SpecIntake == InitIntake /\ [][NextIntake]_vars

\* Retrospective propagation, offline.  The store starts with at most one entry
\* left by an earlier run on tank 1, of any session and count, synced or not.
InitialEntries ==
  [id : {MkId(1)}, tank : {"Tank 1"}, count : Counts, weight : SaveWeights,
   crateWeight : {DefaultCrateWeight}, crateCount : SaveCrateCounts, team : {"Team A"},
   timestamp : {1}, synced : BOOLEAN, farmName : Farms, sessionName : Sessions]

InitRetro ==
  /\ db \in {EmptyEntries} \cup {Put(EmptyEntries, e) : e \in InitialEntries}
  /\ entries = db
  /\ settings = DefaultSettings
  /\ isOnline = FALSE
  /\ syncingRef = FALSE
  /\ autoFetch = <<>>
  /\ push = [pc |-> "idle", batch |-> EmptyEntries]
  /\ syncing = FALSE
  /\ recall = NoRecall
  /\ recalling = FALSE
  /\ result = NoResult
  /\ edit = NoEdit
  /\ dbq = <<>>
  /\ usedIds = DOMAIN db
  /\ acked = {}
  /\ track = FALSE
  /\ lastPull = NoPull
  /\ report = NoReport

NextRetro ==
  \/ HandleSave /\ Bounded'
  \/ HandleFinishCountEdit /\ Bounded'
  \/ HandleTankSelection /\ Bounded'
  \/ ControlPanelSave /\ Bounded'
  \/ DbResolve /\ Bounded'

SpecRetro == InitRetro /\ [][NextRetro]_vars

\* Entry capture, direct edit and manual push, offline, with the acknowledgement
\* history recorded.
InitAck ==
  /\ db = EmptyEntries
  /\ entries = EmptyEntries
  /\ settings = [DefaultSettings EXCEPT !.googleSheetUrl = ScriptUrl]
  /\ isOnline = FALSE
  /\ syncingRef = FALSE
  /\ autoFetch = <<>>
  /\ push = [pc |-> "idle", batch |-> EmptyEntries]
  /\ syncing = FALSE
  /\ recall = NoRecall
  /\ recalling = FALSE
  /\ result = NoResult
  /\ edit = NoEdit
  /\ dbq = <<>>
  /\ usedIds = {}
  /\ acked = {}
  /\ track = TRUE
  /\ lastPull = NoPull
  /\ report = NoReport

NextAck ==
  \/ HandleSave /\ Bounded'
  \/ StartEdit /\ Bounded'
  \/ SaveEdit /\ Bounded'
  \/ HandlePushToSheets /\ Bounded'
  \/ PushFetchResolve /\ Bounded'
  \/ PushFetchThrow /\ Bounded'
  \/ DbResolve /\ Bounded'

SpecAck == InitAck /\ [][NextAck]_vars

\* ------------------- deletes (App.tsx 228-229, 244-247, 259; LogScreen.tsx
\* 125-147; HistoryScreen.tsx 28-72)
DeleteFrame ==
  UNCHANGED <<entries, settings, isOnline, syncingRef, autoFetch, push, syncing,
              recall, recalling, result, usedIds, acked, track, report>>

ConfirmDelete ==
  \E idToDelete \in ActiveEntries(entries, settings) :
    /\ db' = DeleteEntries(db, {idToDelete})
    /\ dbq' = Append(dbq, Item("deleted", EmptyEntries))
    /\ lastPull' = NoPull
    /\ edit' = NoEdit
    /\ DeleteFrame

HandleBatchDeleteClick ==
  \E ids \in SUBSET ActiveEntries(entries, settings) :
    /\ ids # {}
    /\ db' = DeleteEntries(db, ids)
    /\ dbq' = Append(dbq, Item("deleted", EmptyEntries))
    /\ lastPull' = NoPull
    /\ edit' = NoEdit
    /\ DeleteFrame

\* `${entry.farmName || 'Default Farm'}|||${entry.sessionName || 'Default Session'}`
\* as the pair that key.split('|||') gives back.
SessionKey(entry) ==
  <<IF entry.farmName = "" THEN "Default Farm" ELSE entry.farmName,
    IF entry.sessionName = "" THEN "Default Session" ELSE entry.sessionName>>

SessionGroups(es) == {SessionKey(es[i]) : i \in DOMAIN es}

\* The second click on the delete button of a group (the first asks for
\* confirmation): onDeleteSession(farm, session).
HandleDeleteClickOf(farm, session) ==
  LET ids == {i \in DOMAIN entries :
                entries[i].farmName = farm /\ entries[i].sessionName = session}
  IN /\ <<farm, session>> \in SessionGroups(entries)
     /\ db' = DeleteEntries(db, ids)
     /\ dbq' = Append(dbq, Item("deleted", EmptyEntries))
     /\ lastPull' = NoPull
     /\ edit' = NoEdit
     /\ DeleteFrame

HandleDeleteClick ==
  \E key \in SessionGroups(entries) : HandleDeleteClickOf(key[1], key[2])

\* nuclearReset empties the store and the settings; the page is reloaded.
NuclearReset ==
  /\ db' = EmptyEntries
  /\ entries' = EmptyEntries
  /\ settings' = DefaultSettings
  /\ syncingRef' = FALSE
  /\ autoFetch' = <<>>
  /\ push' = [pc |-> "idle", batch |-> EmptyEntries]
  /\ syncing' = FALSE
  /\ recall' = NoRecall
  /\ recalling' = FALSE
  /\ result' = NoResult
  /\ edit' = NoEdit
  /\ dbq' = <<>>
  /\ lastPull' = NoPull
  /\ UNCHANGED <<isOnline, usedIds, acked, track, report>>

\* The archive: stored sessions, some restored from rows whose farm or session
\* cell is blank, or whose farm is named like the placeholder.
ArchiveFarms == {"", "A", "Default Farm"}
ArchiveSessions == {"", "1"}
ArchiveEntry(id, farm, sess) ==
  [NewEntry(id, DefaultSettings, 50, 2) EXCEPT !.farmName = farm, !.sessionName = sess,
                                               !.synced = TRUE]
ArchiveStores ==
  {EmptyEntries}
    \cup {Put(EmptyEntries, ArchiveEntry(MkId(1), f, s)) :
            f \in ArchiveFarms, s \in ArchiveSessions}
    \cup {Put(Put(EmptyEntries, ArchiveEntry(MkId(1), f, s)), ArchiveEntry(MkId(2), g, t)) :
            f \in ArchiveFarms, s \in ArchiveSessions,
            g \in ArchiveFarms, t \in ArchiveSessions}

InitArchive ==
  /\ db \in ArchiveStores
  /\ entries = db
  /\ settings = DefaultSettings
  /\ isOnline = FALSE
  /\ syncingRef = FALSE
  /\ autoFetch = <<>>
  /\ push = [pc |-> "idle", batch |-> EmptyEntries]
  /\ syncing = FALSE
  /\ recall = NoRecall
  /\ recalling = FALSE
  /\ result = NoResult
  /\ edit = NoEdit
  /\ dbq = <<>>
  /\ usedIds = DOMAIN db
  /\ acked = {}
  /\ track = FALSE
  /\ lastPull = NoPull
  /\ report = NoReport

NextArchive ==
  \/ HandleSave /\ Bounded'
  \/ ConfirmDelete /\ Bounded'
  \/ HandleBatchDeleteClick /\ Bounded'
  \/ HandleDeleteClick /\ Bounded'
  \/ NuclearReset /\ Bounded'
  \/ DbResolve /\ Bounded'

SpecArchive == InitArchive /\ [][NextArchive]_vars

\* The whole ledger: every operation that writes the record store, with one
\* stored entry and one asynchronous operation in flight at a time.
MaxLedgerInFlight == 1
MaxLedgerEntries == 1

BoundedLedger ==
  /\ InFlight <= MaxLedgerInFlight
  /\ Cardinality(DOMAIN db) <= MaxLedgerEntries

\* A settings-panel save that changes the count only; a recall that restores
\* one row, or none.
PanelSaveCount ==
  \E cnt \in Counts :
    ControlPanelSaveOf(settings.activeTank, cnt, settings.farmName, settings.sessionName)

LedgerResponses == {<<Header, GoodRow>>, <<Header, ScalarRow>>}

RecallFetchResolveLedger == \E data \in LedgerResponses : RecallFetchResolveData(data)

InitLedger ==
  /\ Init
  /\ settings.googleSheetUrl = ExecUrl

NextLedger ==
  \/ HandleSave /\ BoundedLedger'
  \/ SetOnline /\ BoundedLedger'
  \/ StartEdit /\ BoundedLedger'
  \/ SaveEdit /\ BoundedLedger'
  \/ HandleFinishCountEdit /\ BoundedLedger'
  \/ PanelSaveCount /\ BoundedLedger'
  \/ HandlePushToSheets /\ BoundedLedger'
  \/ PushFetchResolve /\ BoundedLedger'
  \/ PushFetchThrow /\ BoundedLedger'
  \/ AutoFetchResolve /\ BoundedLedger'
  \/ AutoFetchThrow /\ BoundedLedger'
  \/ HandleRecallFromSheets /\ BoundedLedger'
  \/ RecallFetchResolveLedger /\ BoundedLedger'
  \/ RecallFetchThrow /\ BoundedLedger'
  \/ ConfirmDelete /\ BoundedLedger'
  \/ HandleBatchDeleteClick /\ BoundedLedger'
  \/ HandleDeleteClick /\ BoundedLedger'
  \/ NuclearReset /\ BoundedLedger'
  \/ DbResolve /\ BoundedLedger'

SpecLedger == InitLedger /\ [][NextLedger]_vars

\* Manual push next to auto-sync: always online, a bridge endpoint, captures
\* going on; the acknowledged versions are recorded.
MaxOverlapInFlight == 3

BoundedOverlap == InFlight <= MaxOverlapInFlight

InitOverlap ==
  /\ db = EmptyEntries
  /\ entries = EmptyEntries
  /\ settings = [DefaultSettings EXCEPT !.googleSheetUrl = ExecUrl]
  /\ isOnline = TRUE
  /\ syncingRef = FALSE
  /\ autoFetch = <<>>
  /\ push = [pc |-> "idle", batch |-> EmptyEntries]
  /\ syncing = FALSE
  /\ recall = NoRecall
  /\ recalling = FALSE
  /\ result = NoResult
  /\ edit = NoEdit
  /\ dbq = <<>>
  /\ usedIds = {}
  /\ acked = {}
  /\ track = TRUE
  /\ lastPull = NoPull
  /\ report = NoReport

NextOverlap ==
  \/ HandleSave /\ BoundedOverlap'
  \/ HandlePushToSheets /\ BoundedOverlap'
  \/ PushFetchResolve /\ BoundedOverlap'
  \/ PushFetchThrow /\ BoundedOverlap'
  \/ AutoFetchResolve /\ BoundedOverlap'
  \/ AutoFetchThrow /\ BoundedOverlap'
  \/ DbResolve /\ BoundedOverlap'

SpecOverlap == InitOverlap /\ [][NextOverlap]_vars

\* ------------------------------------------ failures of record-store calls
\* The request is answered but the store rejects the write: nothing is
\* written, and the continuation is the catch block of the handler.
StoreFrame ==
  UNCHANGED <<db, entries, settings, isOnline, syncingRef, syncing, recalling, result,
              edit, usedIds, acked, track, lastPull, report>>

PushMarkReject ==
  /\ push.pc = "fetch"
  /\ push' = [push EXCEPT !.pc = "mark"]
  /\ dbq' = Append(dbq, Item("pushMarkFailed", EmptyEntries))
  /\ UNCHANGED <<autoFetch, recall>>
  /\ StoreFrame

RecallUpsertReject ==
  /\ recall.pc = "fetch"
  /\ recall' = [pc |-> "failed", data |-> <<>>]
  /\ dbq' = Append(dbq, Item("recallFailed", EmptyEntries))
  /\ UNCHANGED <<autoFetch, push>>
  /\ StoreFrame

AutoMarkReject ==
  \E k \in 1..Len(autoFetch) :
    /\ autoFetch' = RemoveAt(autoFetch, k)
    /\ dbq' = Append(dbq, Item("autoMarkFailed", EmptyEntries))
    /\ UNCHANGED <<push, recall>>
    /\ StoreFrame

\* getAllEntries rejects: loadData catches the error and leaves the list
\* alone; an automatic attempt goes on to its finally block.
LoadReject ==
  /\ dbq # <<>>
  /\ Head(dbq).kind \in {"load", "autoLoad"}
  /\ dbq' = Tail(dbq)
  /\ syncingRef' = IF Head(dbq).kind = "autoLoad" THEN FALSE ELSE syncingRef
  /\ UNCHANGED <<db, entries, settings, isOnline, autoFetch, push, syncing, recall,
                 recalling, result, edit, usedIds, acked, track, lastPull, report>>

\* Manual push and recall with every outcome of the request and of the store
\* write; a request is answered or fails in the end, and a pending
\* continuation runs.
InitOutcome ==
  /\ Init
  /\ ~isOnline
  /\ settings.googleSheetUrl \in {<<>>, ExecUrl}

PushSettles == (PushFetchResolve \/ PushFetchThrow \/ PushMarkReject) /\ Bounded'

RecallSettles ==
  (RecallFetchResolveLedger \/ RecallFetchThrow \/ RecallUpsertReject) /\ Bounded'

Continues == (DbResolve \/ LoadReject) /\ Bounded'

NextOutcome ==
  \/ HandleSave /\ Bounded'
  \/ HandlePushToSheets /\ Bounded'
  \/ PushFetchResolve /\ Bounded'
  \/ PushFetchThrow /\ Bounded'
  \/ PushMarkReject /\ Bounded'
  \/ HandleRecallFromSheets /\ Bounded'
  \/ RecallFetchResolveLedger /\ Bounded'
  \/ RecallFetchThrow /\ Bounded'
  \/ RecallUpsertReject /\ Bounded'
  \/ DbResolve /\ Bounded'
  \/ LoadReject /\ Bounded'

SpecOutcome ==
  /\ InitOutcome
  /\ [][NextOutcome]_vars
  /\ WF_vars(PushSettles)
  /\ WF_vars(RecallSettles)
  /\ WF_vars(Continues)

\* Automatic attempts with every outcome of the request, of the mark-synced
\* write and of the reload.
InitGuard ==
  /\ Init
  /\ settings.googleSheetUrl = ExecUrl

NextGuard ==
  \/ HandleSave /\ Bounded'
  \/ SetOnline /\ Bounded'
  \/ StartEdit /\ Bounded'
  \/ SaveEdit /\ Bounded'
  \/ AutoFetchResolve /\ Bounded'
  \/ AutoFetchThrow /\ Bounded'
  \/ AutoMarkReject /\ Bounded'
  \/ DbResolve /\ Bounded'
  \/ LoadReject /\ Bounded'

SpecGuard == InitGuard /\ [][NextGuard]_vars

\* Auto-sync with a transport that never throws and a record store that never
\* fails: captures, count changes, manual pushes and connectivity changes; a
\* pending request is answered and a pending continuation runs.
InitDrain ==
  /\ Init
  /\ settings.googleSheetUrl = ExecUrl

NextDrain ==
  \/ HandleSave /\ Bounded'
  \/ SetOnline /\ Bounded'
  \/ HandleFinishCountEdit /\ Bounded'
  \/ AutoFetchResolve /\ Bounded'
  \/ HandlePushToSheets /\ Bounded'
  \/ PushFetchResolve /\ Bounded'
  \/ DbResolve /\ Bounded'

SpecDrain ==
  /\ InitDrain
  /\ [][NextDrain]_vars
  /\ WF_vars(AutoFetchResolve /\ Bounded')
  /\ WF_vars(PushFetchResolve /\ Bounded')
  /\ WF_vars(DbResolve /\ Bounded')

\* ------------------------------------------------- aggregation: input domain
\* The entries prop of a screen: a list of entries of up to MaxEntries items.
\* Weight 10 with one crate of 1.8 kg has a negative raw net; crate count 0
\* and crate weight 0 are the unset fields; crate count 3 is neither a single
\* nor a double crate.
AggWeights == {10, 50}
AggCrateCounts == {0, 1, 2, 3}
AggCrateWeights == {0, 20}
Timestamps == {1, 2}
AggShapes ==
  [tank : Tanks, weight : AggWeights, crateCount : AggCrateCounts,
   crateWeight : AggCrateWeights, timestamp : Timestamps]

AggEntry(k, shape) ==
  [NewEntry(MkId(k), DefaultSettings, shape.weight, shape.crateCount)
     EXCEPT !.tank = shape.tank, !.crateWeight = shape.crateWeight,
            !.timestamp = shape.timestamp]

AggLists ==
  UNION {{[k \in 1..n |-> AggEntry(k, f[k])] : f \in [1..n -> AggShapes]} :
           n \in 0..MaxEntries}

\* settings.tankPrices after parseFloat: a tank without a price is absent.
AggPrices == [t \in {"Tank 1"} |-> 3]

\* a.tank.localeCompare(b.tank) on the tank names of the model
TankOrder == <<"Tank 1", "Tank 2">>

\* ----------------------- timeline running totals (LogScreen.tsx 39-82)
Max0(x) == IF x > 0 THEN x ELSE 0

Tare(entry) ==
  OrDefault(entry.crateCount, DefaultCrateCount)
    * OrDefault(entry.crateWeight, DefaultCrateWeight)

NetUnclamped(entry) == entry.weight - Tare(entry)

Net(entry) == Max0(entry.weight - Tare(entry))

Group(list, tank) == SelectSeq(list, LAMBDA e : e.tank = tank)

\* Array.prototype.sort is stable: an entry goes behind every entry whose
\* timestamp is not later than its own.
RECURSIVE InsertByTime(_, _)
InsertByTime(sorted, entry) ==
  IF sorted = <<>> THEN <<entry>>
  ELSE IF Head(sorted).timestamp <= entry.timestamp
       THEN <<Head(sorted)>> \o InsertByTime(Tail(sorted), entry)
       ELSE <<entry>> \o sorted

RECURSIVE Chronological(_)
Chronological(group) ==
  IF group = <<>> THEN <<>>
  ELSE InsertByTime(Chronological(SubSeq(group, 1, Len(group) - 1)),
                    group[Len(group)])

\* currentGross and currentNet after the k-th entry of the sorted group
RECURSIVE Accumulate(_, _)
Accumulate(chronological, k) ==
  IF k = 0 THEN [runningGross |-> 0, runningNet |-> 0]
  ELSE LET prev == Accumulate(chronological, k - 1)
       IN  [runningGross |-> prev.runningGross + chronological[k].weight,
            runningNet |-> prev.runningNet + Net(chronological[k])]

RunningTotalsMap(list) ==
  [id \in {list[k].id : k \in DOMAIN list} |->
     LET entry == list[CHOOSE k \in DOMAIN list : list[k].id = id]
         chronological == Chronological(Group(list, entry.tank))
         pos == CHOOSE k \in DOMAIN chronological : chronological[k].id = id
     IN  Accumulate(chronological, pos)]

\* ------------- tank summaries (AbstractScreen.tsx 13-38, RevenueScreen.tsx
\* 13-38, SyncManager.tsx 142-170)
NoSummaries == [t \in {} |-> 0]

NewSummary(entry) ==
  [tank |-> entry.tank, entryCount |-> 0, patluCount |-> 0, singlesCount |-> 0,
   crateCount |-> 0, totalWeight |-> 0, absoluteWeight |-> 0,
   shrimpCount |-> entry.count]

\* map.get(tank) || fresh summary; the increments; map.set(tank, current)
Tally(map, entry, crates, patlu, single, net) ==
  LET current == IF entry.tank \in DOMAIN map THEN map[entry.tank]
                 ELSE NewSummary(entry)
      updated == [current EXCEPT
                    !.entryCount = @ + 1,
                    !.patluCount = IF patlu THEN @ + 1 ELSE @,
                    !.singlesCount = IF single THEN @ + 1 ELSE @,
                    !.crateCount = @ + crates,
                    !.totalWeight = @ + entry.weight,
                    !.absoluteWeight = @ + net,
                    !.shrimpCount = entry.count]
  IN  [t \in DOMAIN map \cup {entry.tank} |->
         IF t = entry.tank THEN updated ELSE map[t]]

SortedByTank(map) ==
  LET present == SelectSeq(TankOrder, LAMBDA t : t \in DOMAIN map)
  IN  [k \in 1..Len(present) |-> map[present[k]]]

Price(prices, tank) == IF tank \in DOMAIN prices THEN prices[tank] ELSE 0

AbstractAddClamped(map, entry) ==
  LET entryCrateCount == OrDefault(entry.crateCount, DefaultCrateCount)
      effectiveCrateWeight == OrDefault(entry.crateWeight, DefaultCrateWeight)
  IN  Tally(map, entry, entryCrateCount, entryCrateCount = 2,
            entryCrateCount # 2 /\ entryCrateCount = 1,
            Max0(entry.weight - entryCrateCount * effectiveCrateWeight))

AbstractAddSinglesByElse(map, entry) ==
  LET entryCrateCount == OrDefault(entry.crateCount, DefaultCrateCount)
      effectiveCrateWeight == OrDefault(entry.crateWeight, DefaultCrateWeight)
  IN  Tally(map, entry, entryCrateCount, entryCrateCount = 2,
            entryCrateCount # 2,
            entry.weight - entryCrateCount * effectiveCrateWeight)

AbstractAdd(map, entry) ==
  LET entryCrateCount == OrDefault(entry.crateCount, DefaultCrateCount)
      effectiveCrateWeight == OrDefault(entry.crateWeight, DefaultCrateWeight)
  IN  Tally(map, entry, entryCrateCount, entryCrateCount = 2,
            entryCrateCount # 2 /\ entryCrateCount = 1,
            entry.weight - entryCrateCount * effectiveCrateWeight)

RECURSIVE AbstractMap(_)
AbstractMap(list) ==
  IF list = <<>> THEN NoSummaries
  ELSE AbstractAdd(AbstractMap(SubSeq(list, 1, Len(list) - 1)), list[Len(list)])

AbstractSummaries(list) == SortedByTank(AbstractMap(list))

RevenueAdd(map, entry) ==
  LET entryCrateCount == OrDefault(entry.crateCount, DefaultCrateCount)
      effectiveCrateWeight == OrDefault(entry.crateWeight, DefaultCrateWeight)
  IN  Tally(map, entry, entryCrateCount, entryCrateCount = 2,
            entryCrateCount # 2 /\ entryCrateCount = 1,
            entry.weight - entryCrateCount * effectiveCrateWeight)

RECURSIVE RevenueMap(_)
RevenueMap(list) ==
  IF list = <<>> THEN NoSummaries
  ELSE RevenueAdd(RevenueMap(SubSeq(list, 1, Len(list) - 1)), list[Len(list)])

RevenueSummaries(list) == SortedByTank(RevenueMap(list))

RECURSIVE TotalRevenue(_, _)
TotalRevenue(summaries, prices) ==
  IF summaries = <<>> THEN 0
  ELSE TotalRevenue(SubSeq(summaries, 1, Len(summaries) - 1), prices)
         + summaries[Len(summaries)].absoluteWeight
             * Price(prices, summaries[Len(summaries)].tank)

PdfNet(e) == Max0(e.weight - Tare(e))

PdfAdd(tankMap, e) ==
  Tally(tankMap, e, OrDefault(e.crateCount, DefaultCrateCount),
        e.crateCount = 2, e.crateCount # 2, PdfNet(e))

RECURSIVE PdfMap(_)
PdfMap(filteredEntries) ==
  IF filteredEntries = <<>> THEN NoSummaries
  ELSE PdfAdd(PdfMap(SubSeq(filteredEntries, 1, Len(filteredEntries) - 1)),
              filteredEntries[Len(filteredEntries)])

PdfSummaries(filteredEntries) == SortedByTank(PdfMap(filteredEntries))

\* The same reduce as RevenueScreen, over settings.tankPrices.
PdfTotalRevenue(tankSummaries, prices) == TotalRevenue(tankSummaries, prices)

\* --------------------------------------------- the screens render their data
ShowFrame ==
  UNCHANGED <<db, entries, settings, isOnline, syncingRef, autoFetch, push,
              syncing, recall, recalling, result, edit, dbq, usedIds, acked,
              track, lastPull>>

ShowLog ==
  /\ "log" \notin report.shown
  /\ report' = [report EXCEPT !.shown = @ \cup {"log"},
                              !.log = RunningTotalsMap(report.list)]
  /\ ShowFrame

ShowAbstract ==
  /\ "abstract" \notin report.shown
  /\ report' = [report EXCEPT !.shown = @ \cup {"abstract"},
                              !.abstract = AbstractSummaries(report.list)]
  /\ ShowFrame

ShowRevenue ==
  /\ "revenue" \notin report.shown
  /\ report' = [report EXCEPT
                  !.shown = @ \cup {"revenue"},
                  !.revenue =
                     [summaries |-> RevenueSummaries(report.list),
                      totalRevenue |-> TotalRevenue(RevenueSummaries(report.list),
                                                    report.prices)]]
  /\ ShowFrame

HandleDownloadPDF ==
  /\ "pdf" \notin report.shown
  /\ report' = [report EXCEPT
                  !.shown = @ \cup {"pdf"},
                  !.pdf =
                     [tankSummaries |-> PdfSummaries(report.list),
                      totalRevenue |-> PdfTotalRevenue(PdfSummaries(report.list),
                                                       report.prices)]]
  /\ ShowFrame

InitAggregate ==
  /\ db = EmptyEntries
  /\ entries = EmptyEntries
  /\ settings = DefaultSettings
  /\ isOnline = FALSE
  /\ syncingRef = FALSE
  /\ autoFetch = <<>>
  /\ push = [pc |-> "idle", batch |-> EmptyEntries]
  /\ syncing = FALSE
  /\ recall = NoRecall
  /\ recalling = FALSE
  /\ result = NoResult
  /\ edit = NoEdit
  /\ dbq = <<>>
  /\ usedIds = {}
  /\ acked = {}
  /\ track = FALSE
  /\ lastPull = NoPull
  /\ report \in {[NoReport EXCEPT !.list = l, !.prices = AggPrices] : l \in AggLists}

NextAggregate ==
  \/ ShowLog
  \/ ShowAbstract
  \/ ShowRevenue
  \/ HandleDownloadPDF

SpecAggregate == InitAggregate /\ [][NextAggregate]_vars

\* ======================================================================
\* Properties
\* ======================================================================
RecognisedEndpoint(url) ==
  \E i \in 1..Len(url) : url[i] = "/macros/s/" \/ url[i] = "/exec"

AllSynced(es) == \A id \in DOMAIN es : es[id].synced

RowsOf(data) == IF Len(data) = 0 THEN <<>> ELSE SubSeq(data, 2, Len(data))

RowAccepted(row) == Len(row.id) > 0 /\ row.id[1] = "id_"

\* C1: a stored entry is synced only if its current field values are those of a
\* version that was sent in a push request that did not throw or was received by
\* a recall.
C1_SyncedOnlyIfAcknowledged ==
  \A id \in DOMAIN db : db[id].synced => [db[id] EXCEPT !.synced = TRUE] \in acked

\* C2: a recall leaves every stored entry whose id is absent from the snapshot
\* in the store with all its fields, synced included, unchanged.
C2_PullKeepsAbsentEntries ==
  [][(recall.pc = "fetch" /\ recall'.pc = "upsert") =>
       \A id \in DOMAIN db :
         (\A k \in 1..Len(RowsOf(recall'.data)) : RowsOf(recall'.data)[k].id # id) =>
           id \in DOMAIN db' /\ db'[id] = db[id]]_vars

\* C2 witness: a recall has written one row while the store holds an unsynced
\* local entry that the snapshot did not name.
C2_Witness ==
  /\ recall.pc = "upsert"
  /\ Len(RowsOf(recall.data)) = 1
  /\ \E a, b \in DOMAIN db :
       /\ db[a].team = "Team A" /\ ~db[a].synced
       /\ db[b].team = "Team B"

OutOfScope(e, farm, session, tank) ==
  e.farmName # farm \/ e.sessionName # session \/ e.tank # tank

C5_CountChangeReachesEveryEntry ==
  [][(/\ settings'.shrimpCount # settings.shrimpCount
      /\ settings'.activeTank = settings.activeTank
      /\ settings'.farmName = settings.farmName
      /\ settings'.sessionName = settings.sessionName) =>
       /\ \A id \in DOMAIN db' :
            (/\ db'[id].farmName = settings.farmName
             /\ db'[id].sessionName = settings.sessionName
             /\ db'[id].tank = settings.activeTank) =>
              db'[id].count = settings'.shrimpCount
       /\ \A id \in DOMAIN db :
            db'[id].count # db[id].count => ~db'[id].synced]_vars

\* C6: at most one automatic attempt (its request, its mark-synced write or its
\* reload) is outstanding, and the reentrancy flag is set while one is.
AutoAttempts ==
  Len(autoFetch)
    + Cardinality({k \in 1..Len(dbq) : dbq[k].kind \in {"autoMark", "autoLoad"}})

C6_AtMostOneAutoSync ==
  /\ AutoAttempts <= 1
  /\ AutoAttempts = 1 => syncingRef

\* C6 witness: an automatic request is in flight while the list holds an
\* unsynced entry that is not part of it: the effect ran again and returned.
C6_Witness ==
  /\ isOnline /\ syncingRef /\ Len(autoFetch) = 1
  /\ Len(settings.googleSheetUrl) > 0
  /\ \E id \in DOMAIN entries : ~entries[id].synced /\ id \notin DOMAIN autoFetch[1]

\* C7: with no endpoint configured, or one that is not of the recognised shape,
\* no push request is in flight and no stored entry is synced.
C7_NoPushWithoutRecognisedEndpoint ==
  ~RecognisedEndpoint(settings.googleSheetUrl) =>
    /\ autoFetch = <<>>
    /\ push.pc = "idle"
    /\ \A id \in DOMAIN db : ~db[id].synced

\* C8: when a push request, manual or automatic, resolves, every entry of its
\* batch is synced in the store after that one step and nothing else in the
\* store changes; when it throws, the store is unchanged.
BatchMarked(batch) ==
  /\ DOMAIN db' = DOMAIN db
  /\ \A id \in DOMAIN db :
       IF id \in DOMAIN batch THEN db'[id] = [db[id] EXCEPT !.synced = TRUE]
       ELSE db'[id] = db[id]

C8_OptimisticAck ==
  [][/\ (push.pc = "fetch" /\ push'.pc = "mark") => BatchMarked(push.batch)
     /\ (push.pc = "fetch" /\ push'.pc = "idle") => db' = db
     /\ (Len(autoFetch') < Len(autoFetch) /\ Len(dbq') > Len(dbq)) =>
          \E k \in 1..Len(autoFetch) : BatchMarked(autoFetch[k])
     /\ (Len(autoFetch') < Len(autoFetch) /\ Len(dbq') = Len(dbq)) => db' = db]_vars

\* C8 witness: a manual push of two entries has resolved and both are synced in
\* the store, before the screen has reloaded.
C8_Witness ==
  /\ push.pc = "mark"
  /\ Cardinality(DOMAIN push.batch) = 2
  /\ \A id \in DOMAIN push.batch : id \in DOMAIN db /\ db[id].synced
  /\ \E id \in DOMAIN push.batch : id \in DOMAIN entries /\ ~entries[id].synced

\* C9: a recall creates exactly the entries named by accepted rows (identifier
\* present and starting with 'id_'), stores each of them synced, and leaves
\* every other stored entry as it was.
AcceptedIds(data) ==
  {RowsOf(data)[k].id : k \in {j \in 1..Len(RowsOf(data)) : RowAccepted(RowsOf(data)[j])}}

C9_RecallAcceptsPrefixedRowsOnly ==
  [][(recall.pc = "fetch" /\ recall'.pc = "upsert") =>
       /\ DOMAIN db' = DOMAIN db \cup AcceptedIds(recall'.data)
       /\ \A id \in AcceptedIds(recall'.data) : db'[id].synced /\ db'[id].id = id
       /\ \A id \in DOMAIN db \ AcceptedIds(recall'.data) : db'[id] = db[id]]_vars

\* C9 witness: a recall has written a snapshot of one rejected and one accepted
\* row: the accepted row is stored synced, the rejected one is not stored.
C9_Witness ==
  /\ recall.pc = "upsert"
  /\ Len(RowsOf(recall.data)) = 2
  /\ \E j, k \in 1..2 :
       /\ ~RowAccepted(RowsOf(recall.data)[j])
       /\ Len(RowsOf(recall.data)[j].id) > 0
       /\ RowsOf(recall.data)[j].id \notin DOMAIN db
       /\ RowAccepted(RowsOf(recall.data)[k])
       /\ RowsOf(recall.data)[k].id \in DOMAIN db
       /\ db[RowsOf(recall.data)[k].id].synced

\* C10 as stated: after a recall, every entry that was stored and is named by
\* an accepted row has every field equal to that row's value, and is synced.
RowFields == {"id", "tank", "count", "weight", "crateCount", "crateWeight", "team",
              "timestamp", "farmName", "sessionName"}

C10_RecallOverwritesWithRowValues ==
  [][(recall.pc = "fetch" /\ recall'.pc = "upsert") =>
       \A k \in 1..Len(RowsOf(recall'.data)) :
         LET row == RowsOf(recall'.data)[k]
         IN (RowAccepted(row) /\ row.id \in DOMAIN db) =>
              /\ db'[row.id].synced
              /\ \A f \in RowFields : db'[row.id][f] = row[f]]_vars

\* C10 amended: after a recall, every entry that was stored and is named by an
\* accepted row has every field equal to the value in the last accepted row of
\* that id, where a blank or zero crate weight reads 1.8 kg and a blank or zero
\* crate count reads 1, and is synced.
LastRowOf(data, id) ==
  RowsOf(data)[CHOOSE k \in 1..Len(RowsOf(data)) :
                 /\ RowsOf(data)[k].id = id
                 /\ \A j \in (k + 1)..Len(RowsOf(data)) : RowsOf(data)[j].id # id]

CellOr(x, d) == IF x = 0 THEN d ELSE x

C10_RecallOverwritesWithLastRow ==
  [][(recall.pc = "fetch" /\ recall'.pc = "upsert") =>
       \A id \in AcceptedIds(recall'.data) \cap DOMAIN db :
         LET row == LastRowOf(recall'.data, id)
         IN /\ db'[id].synced
            /\ \A f \in RowFields \ {"crateWeight", "crateCount"} : db'[id][f] = row[f]
            /\ db'[id].crateWeight = CellOr(row.crateWeight, 18)
            /\ db'[id].crateCount = CellOr(row.crateCount, 1)]_vars

\* C10 witness: a recall has overwritten a local unsynced entry with the row of
\* its id whose crate cells are blank.
C10_Witness ==
  /\ recall.pc = "upsert"
  /\ \E id \in DOMAIN entries :
       /\ ~entries[id].synced /\ entries[id].team = "Team A"
       /\ id \in AcceptedIds(recall.data)
       /\ LastRowOf(recall.data, id).crateWeight = 0
       /\ db[id].team = "Team B" /\ db[id].synced /\ db[id].crateWeight = 18

\* C11: a recall of the snapshot that the last recall wrote, with no other
\* write to the store in between, leaves the store as it was.
C11_RepeatedRecallChangesNothing ==
  [][(recall.pc = "fetch" /\ recall'.pc = "upsert" /\ lastPull.times > 0
        /\ recall'.data = lastPull.data) => db' = db]_vars

\* C11 witness: the same snapshot has been recalled twice in a row; it names a
\* local entry, which the first recall overwrote, twice with different cells.
C11_Witness ==
  /\ recall.pc = "upsert"
  /\ lastPull.times = 2
  /\ Len(RowsOf(recall.data)) = 2
  /\ RowsOf(recall.data)[1].id = RowsOf(recall.data)[2].id
  /\ RowsOf(recall.data)[1] # RowsOf(recall.data)[2]
  /\ \E id \in DOMAIN entries :
       /\ id = RowsOf(recall.data)[1].id
       /\ id \in DOMAIN db /\ db[id].team = "Team B"

\* C12: when the request or the parse throws, or the response is not a table
\* (it is no array, or an element of it is no array of cells), the recall
\* writes nothing to the store and reports a failure.
Tabular(data) == \A k \in 1..Len(data) : "id" \in DOMAIN data[k]

C12_UntabularRecallFails ==
  [][/\ (recall.pc = "fetch" /\ recall'.pc = "idle") =>
          db' = db /\ result'.type = "error"
     /\ (recall.pc = "fetch" /\ recall'.pc = "upsert" /\ ~Tabular(recall'.data)) =>
          db' = db
     /\ (recall.pc = "upsert" /\ recall'.pc = "idle" /\ ~Tabular(recall.data)) =>
          result'.type = "error"]_vars

\* C13: a recall whose snapshot holds a row that fails identifier validation
\* ends with a failure report.
C13_RejectedRowReportsFailure ==
  [][(/\ recall.pc = "upsert" /\ recall'.pc = "idle"
      /\ \E k \in 1..Len(RowsOf(recall.data)) : ~RowAccepted(RowsOf(recall.data)[k])) =>
       result'.type = "error"]_vars

\* C14: every stored entry has a weight that is a number greater than 0.
C14_StoredWeightPositive ==
  \A id \in DOMAIN db : db[id].weight # -1 /\ db[id].weight > 0

\* ------------------------------------------------------- aggregation claims
RECURSIVE SumFn(_, _)
SumFn(f, S) ==
  IF S = {} THEN 0
  ELSE LET x == CHOOSE x \in S : TRUE IN f[x] + SumFn(f, S \ {x})

\* The tare of an entry as the spec words it: crate count times crate weight,
\* an unset field standing for 1 crate and 1.8 kg.
RawNetOf(e) == e.weight - CellOr(e.crateCount, 1) * CellOr(e.crateWeight, 18)

ClampedNetOf(e) == IF RawNetOf(e) > 0 THEN RawNetOf(e) ELSE 0

\* The entries of list[j]'s tank up to and including list[j], in ascending
\* timestamp order (entries of one timestamp in list order).
UpTo(list, j) ==
  {i \in DOMAIN list :
     /\ list[i].tank = list[j].tank
     /\ \/ list[i].timestamp < list[j].timestamp
        \/ list[i].timestamp = list[j].timestamp /\ i <= j}

\* C15: on the timeline, the running gross of an entry is the sum of the
\* weights of its tank's entries up to it in ascending timestamp order, its
\* running net is the sum of max(0, weight - crateCount * crateWeight) over
\* the same entries, and so the running net never decreases along that order.
C15_RunningNetNonDecreasing ==
  "log" \in report.shown =>
    \A j \in DOMAIN report.list :
      LET list == report.list
          totals == report.log[list[j].id]
      IN  /\ totals.runningGross = SumFn([i \in DOMAIN list |-> list[i].weight], UpTo(list, j))
          /\ totals.runningNet = SumFn([i \in DOMAIN list |-> ClampedNetOf(list[i])], UpTo(list, j))
          /\ \A i \in UpTo(list, j) :
               /\ report.log[list[i].id].runningNet <= totals.runningNet
               /\ report.log[list[i].id].runningGross <= totals.runningGross

\* C15 witness: a tank's two entries are listed newest first, and the later
\* one has a negative raw net, so its running net equals its predecessor's.
C15_Witness ==
  /\ "log" \in report.shown
  /\ Len(report.list) = 2
  /\ report.list[1].tank = report.list[2].tank
  /\ report.list[1].timestamp > report.list[2].timestamp
  /\ RawNetOf(report.list[1]) < 0
  /\ RawNetOf(report.list[2]) > 0
  /\ report.log[report.list[1].id].runningNet = report.log[report.list[2].id].runningNet
  /\ report.log[report.list[1].id].runningGross > report.log[report.list[2].id].runningGross

\* The positions of a tank's entries in a list, and the tanks of a list.
OfTank(list, tank) == {i \in DOMAIN list : list[i].tank = tank}

TanksOf(list) == {list[i].tank : i \in DOMAIN list}

\* The running net shown for the chronologically last entry of a tank.
FinalRunningNet(list, log, tank) ==
  log[list[CHOOSE j \in OfTank(list, tank) : UpTo(list, j) = OfTank(list, tank)].id].runningNet

\* C16: for one tank, the summary screen's absoluteWeight is the sum of the
\* raw nets weight - crateCount * crateWeight, not clamped; the timeline's
\* final running net is the sum of max(0, net); the two differ by exactly the
\* sum of the negative nets.
C16_ClampingDivergence ==
  {"log", "abstract"} \subseteq report.shown =>
    \A k \in DOMAIN report.abstract :
      LET list == report.list
          s == report.abstract[k]
          idx == OfTank(list, s.tank)
          final == FinalRunningNet(list, report.log, s.tank)
      IN  /\ s.absoluteWeight = SumFn([i \in DOMAIN list |-> RawNetOf(list[i])], idx)
          /\ final = SumFn([i \in DOMAIN list |-> ClampedNetOf(list[i])], idx)
          /\ s.absoluteWeight - final =
               SumFn([i \in DOMAIN list |->
                        IF RawNetOf(list[i]) < 0 THEN RawNetOf(list[i]) ELSE 0], idx)

\* C16 witness: a tank with one entry of negative and one of positive raw net,
\* so that the summary's net lies below the timeline's final running net.
C16_Witness ==
  /\ {"log", "abstract"} \subseteq report.shown
  /\ Len(report.list) = 2
  /\ report.list[1].tank = report.list[2].tank
  /\ RawNetOf(report.list[1]) > 0
  /\ RawNetOf(report.list[2]) < 0
  /\ Len(report.abstract) = 1
  /\ report.abstract[1].absoluteWeight
       < FinalRunningNet(report.list, report.log, report.list[1].tank)

\* C17: the summaries of the summary screen and of the revenue screen hold
\* exactly one summary per distinct tank of the entries; its entryCount is the
\* number of the tank's entries, patluCount the number with crate count 2,
\* singlesCount the number with crate count 1 (an unset count is 1),
\* crateCount the sum of the crate counts and totalWeight the sum of the
\* weights; when every crate count is 1 or 2, patluCount + singlesCount is
\* entryCount.
C17_SummaryPerTank ==
  {"abstract", "revenue"} \subseteq report.shown =>
    /\ report.revenue.summaries = report.abstract
    /\ {report.abstract[k].tank : k \in DOMAIN report.abstract} = TanksOf(report.list)
    /\ Len(report.abstract) = Cardinality(TanksOf(report.list))
    /\ \A k \in DOMAIN report.abstract :
         LET list == report.list
             s == report.abstract[k]
             idx == OfTank(list, s.tank)
         IN  /\ s.entryCount = Cardinality(idx)
             /\ s.patluCount = Cardinality({i \in idx : CellOr(list[i].crateCount, 1) = 2})
             /\ s.singlesCount = Cardinality({i \in idx : CellOr(list[i].crateCount, 1) = 1})
             /\ s.crateCount = SumFn([i \in DOMAIN list |-> CellOr(list[i].crateCount, 1)], idx)
             /\ s.totalWeight = SumFn([i \in DOMAIN list |-> list[i].weight], idx)
             /\ (\A i \in idx : CellOr(list[i].crateCount, 1) \in {1, 2})
                  => s.patluCount + s.singlesCount = s.entryCount

\* C17 witness: one tank with an entry of unset crate count and an entry of
\* three crates; the first counts as a single, the second as neither.
C17_Witness ==
  /\ {"abstract", "revenue"} \subseteq report.shown
  /\ Len(report.list) = 2
  /\ report.list[1].tank = report.list[2].tank
  /\ report.list[1].crateCount = 0
  /\ report.list[2].crateCount = 3
  /\ Len(report.abstract) = 1
  /\ report.abstract[1].singlesCount = 1
  /\ report.abstract[1].patluCount = 0
  /\ report.abstract[1].entryCount = 2
  /\ report.abstract[1].crateCount = 4

\* C18: for the same entries and prices, the export's summary of each tank
\* has the absoluteWeight of the summary screen's, and the export's total
\* revenue is the revenue screen's.
C18_ExportMatchesSummaries ==
  /\ {"abstract", "pdf"} \subseteq report.shown =>
       /\ Len(report.pdf.tankSummaries) = Len(report.abstract)
       /\ \A k \in DOMAIN report.abstract :
            /\ report.pdf.tankSummaries[k].tank = report.abstract[k].tank
            /\ report.pdf.tankSummaries[k].absoluteWeight = report.abstract[k].absoluteWeight
  /\ {"revenue", "pdf"} \subseteq report.shown =>
       report.pdf.totalRevenue = report.revenue.totalRevenue

\* ------------------------------------- the two sites of a count change
\* The settings after a change of nothing but the count of the active tank.
CountSetTo(c) == [settings EXCEPT !.shrimpCount = c]

\* C19: when the count of the active tank is changed to c, the inline
\* quick-edit and the settings-panel save (tank, farm and session as they
\* were) both leave the record store as the retrospective propagation for
\* count c leaves it, hence in the same state.
C19_CallSitesAgree ==
  [][\A c \in Counts :
       (/\ c # settings.shrimpCount
        /\ \/ HandleFinishCountEditOf(c)
           \/ ControlPanelSaveOf(settings.activeTank, c, settings.farmName,
                                 settings.sessionName))
         => db' = RetroStore(CountSetTo(c))]_vars

\* C19 witness: both sites have acted and changed stored counts: the
\* quick-edit set the count to 40 (it is remembered for the tank), the panel
\* save set it back to 30, and both propagations are pending completion.
C19_Witness ==
  /\ Len(dbq) = 2 /\ dbq[1].kind = "retro" /\ dbq[2].kind = "retro"
  /\ settings.activeTank \in DOMAIN settings.tankCounts
  /\ settings.tankCounts[settings.activeTank] = 40
  /\ settings.shrimpCount = 30
  /\ \E id \in DOMAIN db :
       /\ db[id].tank = settings.activeTank
       /\ db[id].sessionName = settings.sessionName
       /\ ~db[id].synced

\* C20: a settings-panel save that changes the count of the active tank T to
\* c (tank unchanged) leaves tankCounts[T] = c in the saved settings.
C20_PanelSaveRemembersCount ==
  [][\A c \in Counts, farm \in Farms, sess \in Sessions :
       (c # settings.shrimpCount
          /\ ControlPanelSaveOf(settings.activeTank, c, farm, sess))
         => /\ settings.activeTank \in DOMAIN settings'.tankCounts
            /\ settings'.tankCounts[settings.activeTank] = c]_vars

\* ------------------------------------------------ the remembered tank counts
\* The settings after the tank selector has switched to a tank.
Selected(sett, tankName) ==
  [sett EXCEPT !.activeTank = tankName, !.shrimpCount = SavedCount(sett, tankName)]

\* C21: when the count of the active tank T has been set to c, by the inline
\* quick-edit or by a settings-panel save, switching to another tank and back
\* to T gives settings.shrimpCount = c.
C21_SwitchRestoresCount ==
  [][\A c \in Counts, farm \in Farms, sess \in Sessions :
       (\/ HandleFinishCountEditOf(c)
        \/ ControlPanelSaveOf(settings.activeTank, c, farm, sess))
         => \A other \in Tanks \ {settings.activeTank} :
              Selected(Selected(settings', other), settings.activeTank).shrimpCount = c]_vars

\* C27: a settings save that leaves shrimpCount unchanged (a change of the
\* active tank, farm or session only) changes no stored entry and issues no
\* batch write.
C27_SameCountSaveWritesNothing ==
  [][(settings' # settings /\ settings'.shrimpCount = settings.shrimpCount)
       => db' = db /\ dbq' = dbq]_vars

\* ----------------------------------------------------------------- archive
\* The entries the archive lists under a group: a blank farm is shown as
\* 'Default Farm', a blank session as 'Default Session'.
ListedUnder(es, farm, session) ==
  {i \in DOMAIN es :
     /\ (IF es[i].farmName = "" THEN "Default Farm" ELSE es[i].farmName) = farm
     /\ (IF es[i].sessionName = "" THEN "Default Session" ELSE es[i].sessionName)
          = session}

\* C30: deleting a session group of the archive removes from the store
\* exactly the entries listed under that group, those with a blank farm or
\* session name included, and no entry of another group.
C30_SessionDeleteRemovesGroup ==
  [][\A farm \in ArchiveFarms \cup {"Default Farm"},
        session \in ArchiveSessions \cup {"Default Session"} :
       HandleDeleteClickOf(farm, session)
         => DOMAIN db' = DOMAIN db \ ListedUnder(entries, farm, session)]_vars

\* ------------------------------------------------------------------ ledger
\* C24: the set of entry ids in the record store shrinks only in a step of
\* delete-by-id, batch delete, session delete or nuclear reset; capture,
\* direct edit, count propagation, settings saves, manual push, auto-sync and
\* recall never remove an id.
C24_OnlyDeletesRemoveIds ==
  [][~(DOMAIN db \subseteq DOMAIN db')
       => (ConfirmDelete \/ HandleBatchDeleteClick \/ HandleDeleteClick
             \/ NuclearReset)]_vars

\* C24 witness: a captured entry that was edited (weight 7.0), rewritten by
\* the count propagation (count 40) and acknowledged by a push is still in
\* the store.
C24_Witness ==
  \E id \in DOMAIN db :
    /\ db[id].weight = 70
    /\ db[id].count = 40
    /\ db[id].team = "Team A"
    /\ db[id].synced

\* The unsynced entries of the in-memory list.
UnsyncedIn(es) == {i \in DOMAIN es : ~es[i].synced}

\* C22: while no automatic attempt is in flight and an endpoint is
\* configured, a step that ends online with unsynced entries in the list,
\* and that either came online or made the unsynced set non-empty, issues an
\* automatic push of exactly the unsynced entries and takes the guard; a
\* step that ends offline issues no automatic push.
C22_AutoSyncTrigger ==
  [][/\ (/\ isOnline' /\ settings'.googleSheetUrl # <<>> /\ ~syncingRef
          /\ UnsyncedIn(entries') # {}
          /\ (~isOnline \/ UnsyncedIn(entries) = {}))
        => /\ Len(autoFetch') = Len(autoFetch) + 1
           /\ autoFetch'[Len(autoFetch')] = Restrict(entries', UnsyncedIn(entries'))
           /\ syncingRef'
     /\ ~isOnline' => Len(autoFetch') <= Len(autoFetch)]_vars

\* C22 witness: online, the automatic attempt triggered for the unsynced
\* entries is in flight and holds the guard.
C22_Witness ==
  /\ isOnline /\ syncingRef
  /\ Len(autoFetch) = 1
  /\ DOMAIN autoFetch[1] # {}
  /\ DOMAIN autoFetch[1] = UnsyncedIn(entries)

\* Nothing is in flight: no request, no continuation of a store call.
Quiet == autoFetch = <<>> /\ push.pc = "idle" /\ dbq = <<>>

\* C23: a manual push started while an automatic attempt holds the guard is
\* sent all the same, with the unsynced entries of that moment; and whenever
\* all attempts have completed, every acknowledged entry is in the store
\* under its id, as it was sent and synced, no captured id is missing, and
\* the in-memory list is the store.
C23_OverlappingPushIsSafe ==
  [][/\ (syncingRef /\ HandlePushToSheets /\ UnsyncedIn(entries) # {})
        => /\ push'.pc = "fetch"
           /\ push'.batch = Restrict(entries, UnsyncedIn(entries))
     /\ Quiet'
        => /\ \A v \in acked' : v.id \in DOMAIN db' /\ db'[v.id] = v
           /\ DOMAIN db' = usedIds'
           /\ entries' = db']_vars

\* C23 witness: an automatic attempt and a manual push are in flight together
\* and carry the same entry.
C23_Witness ==
  /\ Len(autoFetch) = 1 /\ syncingRef
  /\ push.pc = "fetch"
  /\ DOMAIN autoFetch[1] \cap DOMAIN push.batch # {}

\* The manual push, or the recall, leaves its last step.
PushEnds == push.pc # "idle" /\ push'.pc = "idle"

RecallEnds == recall.pc # "idle" /\ recall'.pc = "idle"

Outcomes == {"success", "error"}

AutoInProgress ==
  Len(autoFetch)
    + Cardinality({k \in 1..Len(dbq) :
                     dbq[k].kind \in {"autoMark", "autoMarkFailed", "autoLoad"}})

\* C26: the reentrancy flag is held only while an automatic attempt is in
\* progress: once the attempt has ended, by an answer or a throw of the request,
\* of the mark-synced write or of the reload, the flag is false.
C26_GuardReleased == syncingRef => AutoInProgress = 1

\* C26 witness: an attempt ended by a rejected reload: the store has every
\* entry synced, the list still shows an unsynced one, the flag is released.
C26_Witness ==
  /\ ~syncingRef
  /\ AutoInProgress = 0
  /\ dbq = <<>>
  /\ isOnline
  /\ DOMAIN db # {}
  /\ \A id \in DOMAIN db : db[id].synced
  /\ \E id \in DOMAIN entries : ~entries[id].synced

\* No request, store call or continuation is pending.
NothingInFlight ==
  /\ autoFetch = <<>>
  /\ dbq = <<>>
  /\ push.pc = "idle"
  /\ recall.pc = "idle"

\* C28: whenever nothing is in flight the in-memory list holds exactly the
\* entries of the record store, field by field.
C28_ListEqualsStoreWhenQuiet == NothingInFlight => entries = db

\* A step of the program that no user action and no connectivity change takes:
\* a request is answered or a continuation runs.
SystemStep == AutoFetchResolve \/ PushFetchResolve \/ DbResolve

StoreSynced == \A id \in DOMAIN db : db[id].synced

\* C29: with an endpoint configured and a transport that never throws, once the
\* app stays online and the user makes no further change, every entry of the
\* store ends up synced and stays so.
C29_StoreDrains ==
  (<>[]isOnline /\ <>[][SystemStep]_vars) => <>[]StoreSynced

\* C29 witness: an entry was captured while an automatic attempt for another
\* was in flight; the attempt has ended and a second one carries the new entry.
C29_Witness ==
  /\ isOnline
  /\ Len(autoFetch) = 1
  /\ \E a, b \in DOMAIN db :
       /\ a # b
       /\ db[a].synced
       /\ ~db[b].synced
       /\ DOMAIN autoFetch[1] = {b}

====
